---- MODULE Spec2Model ----
(***************************************************************************)
(* lintCode (src/src/services/lintService.ts): a scope-stack walk over the *)
(* Babel AST that reports undefined identifiers, uses before declaration   *)
(* (TDZ) and unused declarations.                                          *)
(*                                                                         *)
(* The AST is kept as the sequence of its nodes in traversal order.  A     *)
(* node that introduces a scope appears twice, as its "enter" and as its   *)
(* "exit" event; an Identifier appears once, with the role it plays in its *)
(* parent.  Every node carries the position data Babel attaches to it      *)
(* (start, end, loc.start.line, loc.start.column).  A VariableDeclarator   *)
(* shares start and loc.start with its id, so the id's event (role         *)
(* "declId") carries the declarator's kind and end as well.                *)
(***************************************************************************)
EXTENDS Integers, Sequences, FiniteSets, TLC

(* ----------------------------- bounds --------------------------------- *)

\* Largest number of AST items (statements and scope-introducing nodes) of a
\* generated program.
MaxSize == 3

(* ----------------------------- names ---------------------------------- *)

\* A name is the sequence of its characters.
nA == <<"a">>
nName == <<"n", "a", "m", "e">>
nGreet == <<"g", "r", "e", "e", "t">>
nMessage == <<"m", "e", "s", "s", "a", "g", "e">>
nConsole == <<"c", "o", "n", "s", "o", "l", "e">>
nLog == <<"l", "o", "g">>

nab == <<"a", "b">>
nAb == <<"A", "b">>
nAB == <<"A", "B">>
nCons == <<"c", "o", "n", "s">>
nConsol == <<"c", "o", "n", "s", "o", "l">>

nac == <<"a", "c">>
ncb == <<"c", "b">>
nConso == <<"c", "o", "n", "s", "o">>

GLOBALS ==
  << nConsole,
     <<"w", "i", "n", "d", "o", "w">>,
     <<"d", "o", "c", "u", "m", "e", "n", "t">>,
     nName,
     <<"l", "o", "c", "a", "t", "i", "o", "n">>,
     <<"n", "a", "v", "i", "g", "a", "t", "o", "r">>,
     <<"s", "e", "t", "T", "i", "m", "e", "o", "u", "t">>,
     <<"s", "e", "t", "I", "n", "t", "e", "r", "v", "a", "l">>,
     <<"c", "l", "e", "a", "r", "T", "i", "m", "e", "o", "u", "t">>,
     <<"c", "l", "e", "a", "r", "I", "n", "t", "e", "r", "v", "a", "l">> >>

Range(s) == {s[i] : i \in 1..Len(s)}

IsGlobal(name) == name \in Range(GLOBALS)

(* ------------------------- AST nodes (input) --------------------------- *)

\* Names the generated programs declare and reference: one ordinary name and
\* one that is also a browser global.
ProgNames == {nA, nName}

DeclKinds == {"var", "let", "const"}

NoName == <<>>

RawNode(type, ev, role, kind, name, stmt) ==
  [type |-> type, ev |-> ev, role |-> role, kind |-> kind, name |-> name,
   stmt |-> stmt]

\* `<kind> <name>;`
DeclStmt(kind, name) ==
  << RawNode("Identifier", "visit", "declId", kind, name, TRUE) >>

\* `<name>;`
UseStmt(name) ==
  << RawNode("Identifier", "visit", "ref", "-", name, TRUE) >>

BlockEnter(stmt) == RawNode("BlockStatement", "enter", "-", "-", NoName, stmt)
BlockExit == RawNode("BlockStatement", "exit", "-", "-", NoName, FALSE)

\* `{ <body> }`
BlockStmt(body) == <<BlockEnter(TRUE)>> \o body \o <<BlockExit>>

ParamNodes(role, params) ==
  [i \in 1..Len(params) |->
     RawNode("Identifier", "visit", role, "-", params[i], FALSE)]

\* `function <name>(<params>) { <body> }`
FuncStmt(name, params, body) ==
  << RawNode("FunctionDeclaration", "enter", "-", "-", name, TRUE),
     RawNode("Identifier", "visit", "funcId", "-", name, FALSE) >>
  \o ParamNodes("funcParam", params)
  \o <<BlockEnter(FALSE)>> \o body \o <<BlockExit>>
  \o << RawNode("FunctionDeclaration", "exit", "-", "-", NoName, FALSE) >>

\* `(<params>) => { <body> }`
ArrowStmt(params, body) ==
  << RawNode("ArrowFunctionExpression", "enter", "-", "-", NoName, TRUE) >>
  \o ParamNodes("arrowParam", params)
  \o <<BlockEnter(FALSE)>> \o body \o <<BlockExit>>
  \o << RawNode("ArrowFunctionExpression", "exit", "-", "-", NoName, FALSE) >>

\* `(<params>) => <name>`
ArrowExprStmt(params, name) ==
  << RawNode("ArrowFunctionExpression", "enter", "-", "-", NoName, TRUE) >>
  \o ParamNodes("arrowParam", params)
  \o << RawNode("Identifier", "visit", "ref", "-", name, FALSE) >>
  \o << RawNode("ArrowFunctionExpression", "exit", "-", "-", NoName, FALSE) >>

\* `function <name>(<x> = <p>,` newline `<p>) { }`: the default value of the
\* first parameter refers to the second one, which is declared on a later line
\* in the one-statement-per-line layout.
FuncDefaultStmt(name, x, p) ==
  << RawNode("FunctionDeclaration", "enter", "-", "-", name, TRUE),
     RawNode("Identifier", "visit", "funcId", "-", name, FALSE),
     RawNode("Identifier", "visit", "patternLeft", "-", x, FALSE),
     RawNode("Identifier", "visit", "ref", "-", p, FALSE),
     RawNode("Identifier", "visit", "funcParam", "-", p, TRUE),
     BlockEnter(FALSE), BlockExit,
     RawNode("FunctionDeclaration", "exit", "-", "-", NoName, FALSE) >>

ParamLists(names) == {<<>>} \cup {<<n>> : n \in names}

\* What a family of generated programs is built from: the names its declarators
\* bind, the names it references, the names of its functions and parameters,
\* and its declaration kinds.
Vocabulary(declNames, useNames, fnNames, kinds) ==
  [decl |-> declNames, use |-> useNames, fn |-> fnNames, kinds |-> kinds]

Leaves(v) ==
  {DeclStmt(k, n) : k \in v.kinds, n \in v.decl}
  \cup {UseStmt(n) : n \in v.use}

RECURSIVE BodyOfSize(_, _)
RECURSIVE StmtOfSize(_, _)

\* The statements of exactly `size` items over the vocabulary v.
StmtOfSize(v, size) ==
  IF size = 1
  THEN Leaves(v) \cup {BlockStmt(<<>>)}
  ELSE {BlockStmt(b) : b \in BodyOfSize(v, size - 1)}
       \cup (IF size = 2
             THEN {ArrowExprStmt(p, n) : p \in ParamLists(v.fn), n \in v.use}
                  \cup UNION {{FuncDefaultStmt(n, x, q) :
                                 n \in v.fn, q \in v.fn \ {x}} : x \in v.fn}
             ELSE {})
       \cup UNION {{FuncStmt(n, p, b) : n \in v.fn, p \in ParamLists(v.fn)}
                     : b \in BodyOfSize(v, size - 2)}
       \cup UNION {{ArrowStmt(p, b) : p \in ParamLists(v.fn)}
                     : b \in BodyOfSize(v, size - 2)}

\* The statement lists of exactly `size` items over the vocabulary v.
BodyOfSize(v, size) ==
  IF size = 0
  THEN {<<>>}
  ELSE UNION {{s \o r : s \in StmtOfSize(v, k),
                        r \in BodyOfSize(v, size - k)} : k \in 1..size}

RawPrograms(v, maxSize) ==
  UNION {BodyOfSize(v, k) : k \in 1..maxSize}


\* The vocabulary of the scoping runs.
ProgVocabulary == Vocabulary(ProgNames, ProgNames, ProgNames, DeclKinds)

\* The vocabulary of the suggestion runs: names that differ by letter case only,
\* and two misspellings of `console`.
SuggestVocabulary ==
  Vocabulary({nab, nAb, nAB, nCons}, {nab, nCons, nConsol}, {nAb}, {"let"})

(* ------------------------- tree structure ------------------------------ *)

RECURSIVE CloseFrom(_, _, _)
CloseFrom(p, j, depth) ==
  IF p[j].ev = "enter" THEN CloseFrom(p, j + 1, depth + 1)
  ELSE IF p[j].ev = "exit"
       THEN (IF depth = 1 THEN j ELSE CloseFrom(p, j + 1, depth - 1))
       ELSE CloseFrom(p, j + 1, depth)

\* The "exit" event of the node whose "enter" event is p[i].
Close(p, i) == CloseFrom(p, i, 0)

\* The "enter" event of the node whose "exit" event is p[i].
Open(p, i) == CHOOSE j \in 1..i : p[j].ev = "enter" /\ Close(p, j) = i

\* The innermost scope-introducing node around p[i]; 0 is the Program.
Parent(p, i) ==
  LET around == {j \in 1..(i - 1) : p[j].ev = "enter" /\ Close(p, j) > i}
  IN IF around = {} THEN 0 ELSE CHOOSE j \in around : \A k \in around : k <= j

\* The nodes strictly inside node i (all the nodes for the Program, 0).
Subtree(p, i) == IF i = 0 THEN 1..Len(p) ELSE (i + 1)..(Close(p, i) - 1)

IsFunctionNode(p, i) ==
  i > 0 /\ p[i].ev = "enter"
  /\ p[i].type \in {"FunctionDeclaration", "ArrowFunctionExpression"}

IsFunctionBody(p, b) ==
  b > 0 /\ p[b].type = "BlockStatement" /\ p[b].ev = "enter"
  /\ IsFunctionNode(p, Parent(p, b))

(* ---------------- programs the parser accepts (module code) ------------ *)

\* The blocks a `var` at p[j] is hoisted through, up to and including the body
\* of its function (or the Program).
RECURSIVE VarPath(_, _)
VarPath(p, j) ==
  LET s == Parent(p, j)
  IN IF s = 0 \/ IsFunctionBody(p, s) THEN {s} ELSE {s} \cup VarPath(p, s)

IsDeclarator(p, i) == p[i].type = "Identifier" /\ p[i].role = "declId"

IsFunctionDecl(p, i) == p[i].type = "FunctionDeclaration" /\ p[i].ev = "enter"

\* let, const, and function declarations outside a function body's top level
\* are lexical bindings of the block (or module) that holds them.
IsLexical(p, i) ==
  \/ IsDeclarator(p, i) /\ p[i].kind \in {"let", "const"}
  \/ IsFunctionDecl(p, i) /\ ~IsFunctionBody(p, Parent(p, i))

IsVarLike(p, i) ==
  \/ IsDeclarator(p, i) /\ p[i].kind = "var"
  \/ IsFunctionDecl(p, i) /\ IsFunctionBody(p, Parent(p, i))

VarScopes(p, i) == IF IsDeclarator(p, i) THEN VarPath(p, i) ELSE {Parent(p, i)}

\* A params entry of type Identifier.
IsParam(p, i) ==
  p[i].type = "Identifier" /\ p[i].role \in {"funcParam", "arrowParam"}

\* A parameter binding: a params entry, or the left side of one with a default.
IsParamBinding(p, i) == IsParam(p, i) \/ p[i].role = "patternLeft"

\* Babel.transform throws "Identifier has already been declared" on a program
\* that redeclares a lexical binding; such a program never reaches the visitor.
ParserAccepts(p) ==
  \A i \in 1..Len(p) :
    IsLexical(p, i) =>
      /\ \A j \in 1..Len(p) :
           (j # i /\ IsLexical(p, j) /\ p[j].name = p[i].name)
             => Parent(p, j) # Parent(p, i)
      /\ \A j \in 1..Len(p) :
           (IsVarLike(p, j) /\ p[j].name = p[i].name)
             => Parent(p, i) \notin VarScopes(p, j)
      /\ \A j \in 1..Len(p) :
           (IsParamBinding(p, j) /\ p[j].name = p[i].name
              /\ IsFunctionBody(p, Parent(p, i)))
             => Parent(p, j) # Parent(p, Parent(p, i))

(* ----------------------- source positions ------------------------------ *)

Layouts == {"oneLine", "perStatement"}

KeywordWidth(kind) == IF kind = "const" THEN 6 ELSE 4

\* Characters of the statement that precede the node's own text.
PreWidth(n) == IF n.role = "declId" THEN KeywordWidth(n.kind) ELSE 0

\* Characters of the node's own first token.
OwnWidth(n) ==
  IF n.type = "Identifier" THEN Len(n.name)
  ELSE IF n.type = "BlockStatement" THEN 1
  ELSE IF n.ev = "exit" THEN 0
  ELSE IF n.type = "FunctionDeclaration" THEN 9
  ELSE 1

\* Characters that follow the node's token: `;`, `(`, `)`, `)=>`.
PostWidth(n) ==
  IF n.type # "Identifier" THEN 0
  ELSE IF n.role = "arrowParam" THEN 3
  ELSE 1

Newline(raw, layout, i) ==
  IF layout = "perStatement" /\ raw[i].stmt /\ i > 1 THEN 1 ELSE 0

\* The nodes of `raw` with the positions the parser gives them when the text is
\* laid out on one line, or with a line break before every node flagged stmt (the
\* first node of a statement, and a parameter written on a line of its own).
Annotate(raw, layout) ==
  LET n == Len(raw)
      after[i \in 0..n] ==
        IF i = 0 THEN 0
        ELSE after[i - 1] + Newline(raw, layout, i) + PreWidth(raw[i])
             + OwnWidth(raw[i]) + PostWidth(raw[i])
      start(i) == after[i - 1] + Newline(raw, layout, i) + PreWidth(raw[i])
      lineStart[i \in 0..n] ==
        IF i = 0 THEN 0
        ELSE IF Newline(raw, layout, i) = 1 THEN after[i - 1] + 1
        ELSE lineStart[i - 1]
      line(i) == 1 + Cardinality({j \in 1..i : Newline(raw, layout, j) = 1})
      end(i) ==
        IF raw[i].type = "Identifier" THEN start(i) + Len(raw[i].name)
        ELSE after[Close(raw, i)]
      \* an "exit" event is the event of the node that was entered
      at(i) == IF raw[i].ev = "exit" THEN Open(raw, i) ELSE i
  IN [i \in 1..n |->
        [type |-> raw[i].type, ev |-> raw[i].ev, role |-> raw[i].role,
         kind |-> raw[i].kind, name |-> raw[i].name,
         start |-> start(at(i)), end |-> end(at(i)),
         line |-> line(at(i)), column |-> start(at(i)) - lineStart[at(i)]]]

Node(type, ev, role, kind, name, start, end, line, column) ==
  [type |-> type, ev |-> ev, role |-> role, kind |-> kind, name |-> name,
   start |-> start, end |-> end, line |-> line, column |-> column]

\* The AST of DEFAULT_CODE, with the offsets, lines and 0-based columns of its
\* text.
DEFAULT_CODE ==
  << Node("FunctionDeclaration", "enter", "-", "-", nGreet, 0, 51, 1, 0),
     Node("Identifier", "visit", "funcId", "-", nGreet, 9, 14, 1, 9),
     Node("Identifier", "visit", "funcParam", "-", nName, 15, 19, 1, 15),
     Node("BlockStatement", "enter", "-", "-", NoName, 21, 51, 1, 21),
     Node("Identifier", "visit", "ref", "-", nName, 44, 48, 2, 21),
     Node("BlockStatement", "exit", "-", "-", NoName, 21, 51, 1, 21),
     Node("FunctionDeclaration", "exit", "-", "-", NoName, 0, 51, 1, 0),
     Node("Identifier", "visit", "declId", "const", nMessage, 59, 83, 5, 6),
     Node("Identifier", "visit", "ref", "-", nGreet, 69, 74, 5, 16),
     Node("Identifier", "visit", "ref", "-", nConsole, 85, 92, 6, 0),
     Node("Identifier", "visit", "memberProp", "-", nLog, 93, 96, 6, 8),
     Node("Identifier", "visit", "ref", "-", nMessage, 97, 104, 6, 12) >>

\* The programs of at most maxSize items over the vocabulary v that the parser
\* accepts, in each of the layouts.
Programs(v, maxSize, layouts) ==
  {Annotate(raw, layout) :
     raw \in {r \in RawPrograms(v, maxSize) : ParserAccepts(r)},
     layout \in layouts}


(* ------------------------------ state ---------------------------------- *)

VARIABLES
  prog,            \* the AST handed to the visitor
  pc,              \* the traversal: 0 before Program.enter, i at node prog[i]
  scopeStack,      \* Scope[]: declared (a Map, in insertion order) and used
  errors,          \* LintError[]
  reportedUnused,  \* Set<number> of declaration start offsets
  earlier,         \* history: an earlier call of lintCode and what it returned
  code,            \* App: the `code` state, a text
  displayed,       \* App: the `errors` state, the list the page shows
  timers,          \* App: the sources of the scheduled setTimeout callbacks
  hist,            \* history: the last runLint and the last effect cleanup
  lev              \* levenshtein on its own: two strings and what it returned

\* The state of the App component, with its history.
app == <<code, displayed, timers, hist>>

vars == <<prog, pc, scopeStack, errors, reportedUnused, earlier, app, lev>>

\* levenshtein has not returned.
NotCalled == 0 - 1

NoStrings == [a |-> <<>>, b |-> <<>>, ab |-> NotCalled, ba |-> NotCalled]

\* No runLint has run and no effect has been cleaned up.
NoRun == [by |-> "none", source |-> <<>>, invoked |-> FALSE, cleared |-> FALSE]

\* lintCode called on its own, outside the page.
Unmounted ==
  /\ code = <<>>
  /\ displayed = <<>>
  /\ timers = {}
  /\ hist = NoRun
  /\ lev = NoStrings

\* No earlier call is remembered.
NoCall == [input |-> <<>>, output |-> <<>>, interleaved |-> FALSE]

Done == pc = Len(prog) + 2

(* --------------------------- diagnostics ------------------------------- *)

NoSuggestion == <<>>

NoFix == [type |-> "none", start |-> 0, end |-> 0]

\* Mutant of UnusedWarning: the fix ends where it starts.
UnusedWarningEmptyFix(name, decl) ==
  [message |-> [text |-> "is declared but never used", name |-> name,
                suggestion |-> NoSuggestion],
   line |-> decl.loc.line, column |-> decl.loc.column,
   severity |-> "warning", ruleId |-> "none",
   fix |-> [type |-> "remove", start |-> decl.startIndex, end |-> decl.startIndex]]

UnusedWarning(name, decl) ==
  [message |-> [text |-> "is declared but never used", name |-> name,
                suggestion |-> NoSuggestion],
   line |-> decl.loc.line, column |-> decl.loc.column,
   severity |-> "warning", ruleId |-> "none",
   fix |-> [type |-> "remove", start |-> decl.startIndex, end |-> decl.endIndex]]

TdzError(name, loc) ==
  [message |-> [text |-> "is used before declaration (TDZ)", name |-> name,
                suggestion |-> NoSuggestion],
   line |-> loc.line, column |-> loc.column,
   severity |-> "error", ruleId |-> "none", fix |-> NoFix]

\* `'${name}' is not defined. Did you mean '${suggestion}'?` when a suggestion
\* exists, `'${name}' is not defined` otherwise.
NotDefinedError(name, suggestion, loc) ==
  [message |-> [text |-> "is not defined", name |-> name,
                suggestion |-> suggestion],
   line |-> loc.line, column |-> loc.column,
   severity |-> "error", ruleId |-> "none", fix |-> NoFix]

(* ---------------------------- scopes ----------------------------------- *)

Loc(node) == [line |-> node.line, column |-> node.column]

Has(declared, name) == \E i \in 1..Len(declared) : declared[i].name = name

Get(declared, name) ==
  declared[CHOOSE i \in 1..Len(declared) : declared[i].name = name]

\* Mutant of enterScope: a nested node reuses the scope that is on top.
enterScopeShared(stack) ==
  IF stack = <<>> THEN Append(stack, [declared |-> <<>>, used |-> {}]) ELSE stack

enterScope(stack) == Append(stack, [declared |-> <<>>, used |-> {}])

\* Mutant of declare: a later declaration of the name replaces the earlier one.
declareLastWins(stack, name, kind, loc, startIndex, endIndex) ==
  LET top == Len(stack)
      scope == stack[top]
      decl == [name |-> name, kind |-> kind, loc |-> loc,
               startIndex |-> startIndex, endIndex |-> endIndex]
  IN IF ~Has(scope.declared, name)
     THEN [stack EXCEPT ![top].declared = Append(scope.declared, decl)]
     ELSE [stack EXCEPT ![top].declared =
             [k \in 1..Len(scope.declared) |->
                IF scope.declared[k].name = name THEN decl
                ELSE scope.declared[k]]]

declare(stack, name, kind, loc, startIndex, endIndex) ==
  LET top == Len(stack)
      scope == stack[top]
  IN IF ~Has(scope.declared, name)
     THEN [stack EXCEPT ![top].declared =
             Append(scope.declared,
                    [name |-> name, kind |-> kind, loc |-> loc,
                     startIndex |-> startIndex, endIndex |-> endIndex])]
     ELSE stack

RECURSIVE hoistFrom(_, _, _, _)
hoistFrom(stack, p, i, last) ==
  IF i > last THEN stack
  ELSE IF IsDeclarator(p, i)
       THEN hoistFrom(declare(stack, p[i].name, p[i].kind, Loc(p[i]),
                              p[i].start, p[i].end),
                      p, i + 1, last)
       ELSE hoistFrom(stack, p, i + 1, last)

\* path.traverse({VariableDeclarator}) from node i: every declarator under the
\* node, nested scopes included, is declared in the scope on top of the stack.
hoistDeclarations(stack, p, i) ==
  hoistFrom(stack, p, i + 1, IF i = 0 THEN Len(p) ELSE Close(p, i) - 1)

RECURSIVE reportUnused(_, _, _, _)
reportUnused(scope, i, errs, reported) ==
  IF i > Len(scope.declared) THEN [errors |-> errs, reportedUnused |-> reported]
  ELSE LET decl == scope.declared[i]
       IN IF decl.name \in scope.used
          THEN reportUnused(scope, i + 1, errs, reported)
          ELSE IF decl.startIndex \in reported
          THEN reportUnused(scope, i + 1, errs, reported)
          ELSE reportUnused(scope, i + 1,
                            Append(errs, UnusedWarning(decl.name, decl)),
                            reported \cup {decl.startIndex})

RECURSIVE reportUnusedNoDedup(_, _, _, _)
reportUnusedNoDedup(scope, i, errs, reported) ==
  IF i > Len(scope.declared) THEN [errors |-> errs, reportedUnused |-> reported]
  ELSE LET decl == scope.declared[i]
       IN IF decl.name \in scope.used
          THEN reportUnusedNoDedup(scope, i + 1, errs, reported)
          ELSE reportUnusedNoDedup(scope, i + 1,
                                   Append(errs, UnusedWarning(decl.name, decl)),
                                   reported \cup {decl.startIndex})

\* Mutant of exitScope: reportedUnused is filled but never consulted.
exitScopeNoDedup(stack, errs, reported) ==
  IF stack = <<>>
  THEN [scopeStack |-> stack, errors |-> errs, reportedUnused |-> reported]
  ELSE LET r == reportUnusedNoDedup(stack[Len(stack)], 1, errs, reported)
       IN [scopeStack |-> SubSeq(stack, 1, Len(stack) - 1),
           errors |-> r.errors, reportedUnused |-> r.reportedUnused]

\* Pops the top scope and reports its declarations that were never used.
exitScope(stack, errs, reported) ==
  IF stack = <<>>
  THEN [scopeStack |-> stack, errors |-> errs, reportedUnused |-> reported]
  ELSE LET r == reportUnused(stack[Len(stack)], 1, errs, reported)
       IN [scopeStack |-> SubSeq(stack, 1, Len(stack) - 1),
           errors |-> r.errors, reportedUnused |-> r.reportedUnused]


(* --------------------------- suggestions ------------------------------- *)

UpperCase ==
  << "A", "B", "C", "D", "E", "F", "G", "H", "I", "J", "K", "L", "M",
     "N", "O", "P", "Q", "R", "S", "T", "U", "V", "W", "X", "Y", "Z" >>

LowerCase ==
  << "a", "b", "c", "d", "e", "f", "g", "h", "i", "j", "k", "l", "m",
     "n", "o", "p", "q", "r", "s", "t", "u", "v", "w", "x", "y", "z" >>

toLowerCase(name) ==
  [i \in 1..Len(name) |->
     IF \E k \in 1..Len(UpperCase) : UpperCase[k] = name[i]
     THEN LowerCase[CHOOSE k \in 1..Len(UpperCase) : UpperCase[k] = name[i]]
     ELSE name[i]]

Min2(x, y) == IF x <= y THEN x ELSE y

Abs(x) == IF x < 0 THEN 0 - x ELSE x

RECURSIVE levColumnsStaleDiagonal(_, _, _, _, _, _)

\* Mutant of levColumns: prevDiagonal keeps the value it had at the row's start.
levColumnsStaleDiagonal(row, a, b, i, j, prevDiagonal) ==
  IF j > Len(b) THEN row
  ELSE LET cost == IF a[i] = b[j] THEN 0 ELSE 1
           cell == Min2(Min2(row[j] + 1, row[j - 1] + 1), prevDiagonal + cost)
       IN levColumnsStaleDiagonal([row EXCEPT ![j] = cell], a, b, i, j + 1,
                                  prevDiagonal)

RECURSIVE levColumns(_, _, _, _, _, _)
levColumns(row, a, b, i, j, prevDiagonal) ==
  IF j > Len(b) THEN row
  ELSE LET temp == row[j]
           cost == IF a[i] = b[j] THEN 0 ELSE 1
           cell == Min2(Min2(row[j] + 1, row[j - 1] + 1), prevDiagonal + cost)
       IN levColumns([row EXCEPT ![j] = cell], a, b, i, j + 1, temp)

RECURSIVE levRows(_, _, _, _)
levRows(row, a, b, i) ==
  IF i > Len(a) THEN row
  ELSE levRows(levColumns([row EXCEPT ![0] = i], a, b, i, 1, row[0]),
               a, b, i + 1)

\* The single-row dynamic programme.
levenshtein(a, b) ==
  IF a = b THEN 0
  ELSE IF Len(a) = 0 THEN Len(b)
  ELSE IF Len(b) = 0 THEN Len(a)
  ELSE levRows([j \in 0..Len(b) |-> j], a, b, 1)[Len(b)]

RECURSIVE addAll(_, _, _)
addAll(candidates, keys, i) ==
  IF i > Len(keys) THEN candidates
  ELSE addAll(IF keys[i] \in Range(candidates) THEN candidates
              ELSE Append(candidates, keys[i]),
              keys, i + 1)

DeclaredNames(scope) ==
  [i \in 1..Len(scope.declared) |-> scope.declared[i].name]

RECURSIVE scopeCandidates(_, _, _)
scopeCandidates(stack, i, candidates) ==
  IF i < 1 THEN candidates
  ELSE scopeCandidates(stack, i - 1,
                       addAll(candidates, DeclaredNames(stack[i]), 1))

\* The candidate Set in its iteration (insertion) order: the declared names
\* from the innermost scope outwards, then GLOBALS.
Candidates(stack) ==
  addAll(scopeCandidates(stack, Len(stack), <<>>), GLOBALS, 1)

maxDistance(name) ==
  IF Len(name) <= 3 THEN 1 ELSE IF Len(name) <= 6 THEN 2 ELSE 3

NoBest == [name |-> NoSuggestion, distance |-> 0 - 1]

RECURSIVE bestCandidateLastOfEqual(_, _, _, _)

\* Mutant of bestCandidate: a candidate at the same distance replaces the best.
bestCandidateLastOfEqual(candidates, name, i, best) ==
  IF i > Len(candidates) THEN best
  ELSE LET candidate == candidates[i]
       IN IF Abs(Len(candidate) - Len(name)) > maxDistance(name)
          THEN bestCandidateLastOfEqual(candidates, name, i + 1, best)
          ELSE LET distance == levenshtein(name, candidate)
               IN IF distance <= maxDistance(name)
                     /\ (best = NoBest \/ distance <= best.distance)
                  THEN bestCandidateLastOfEqual(candidates, name, i + 1,
                         [name |-> candidate, distance |-> distance])
                  ELSE bestCandidateLastOfEqual(candidates, name, i + 1, best)

RECURSIVE bestCandidate(_, _, _, _)
bestCandidate(candidates, name, i, best) ==
  IF i > Len(candidates) THEN best
  ELSE LET candidate == candidates[i]
       IN IF Abs(Len(candidate) - Len(name)) > maxDistance(name)
          THEN bestCandidate(candidates, name, i + 1, best)
          ELSE LET distance == levenshtein(name, candidate)
               IN IF distance <= maxDistance(name)
                     /\ (best = NoBest \/ distance < best.distance)
                  THEN bestCandidate(candidates, name, i + 1,
                                     [name |-> candidate, distance |-> distance])
                  ELSE bestCandidate(candidates, name, i + 1, best)

\* The candidates that equal `name` up to letter case, in candidate order.
CaseMatches(candidates, name) ==
  SelectSeq(candidates,
            LAMBDA c : toLowerCase(c) = toLowerCase(name) /\ c # name)

\* Mutant of getSuggestion: the first candidate within the bound wins, whatever
\* its distance.
getSuggestionFirstWithinBound(stack, name) ==
  LET candidates == Candidates(stack)
      matches == CaseMatches(candidates, name)
      within == SelectSeq(candidates,
                          LAMBDA c : /\ Abs(Len(c) - Len(name)) <= maxDistance(name)
                                     /\ levenshtein(name, c) <= maxDistance(name))
  IN IF matches # <<>> THEN matches[1]
     ELSE IF within # <<>> THEN within[1]
     ELSE NoSuggestion

\* Mutant of getSuggestion: the case-insensitive step suggests only a unique
\* match.
getSuggestionUniqueCaseMatch(stack, name) ==
  LET candidates == Candidates(stack)
      matches == CaseMatches(candidates, name)
  IN IF Len(matches) = 1 THEN matches[1]
     ELSE bestCandidate(candidates, name, 1, NoBest).name

getSuggestion(stack, name) ==
  LET candidates == Candidates(stack)
      matches == CaseMatches(candidates, name)
  IN IF matches # <<>> THEN matches[1]
     ELSE bestCandidate(candidates, name, 1, NoBest).name

(* ------------------------------- use ----------------------------------- *)

\* The innermost scope that declares `name`, 0 when none does.
Resolve(stack, name) ==
  LET found == {i \in 1..Len(stack) : Has(stack[i].declared, name)}
  IN IF found = {} THEN 0 ELSE CHOOSE i \in found : \A k \in found : k <= i

\* Mutant of IsTdz: a reference on the declaration's own line is flagged too.
IsTdzSameLine(decl, loc) ==
  decl.kind \in {"let", "const", "param"} /\ loc.line <= decl.loc.line

IsTdz(decl, loc) ==
  decl.kind \in {"let", "const", "param"} /\ loc.line < decl.loc.line

\* Mutant of use: the GLOBALS test is missing.
useNoGlobals(stack, errs, name, loc) ==
  LET i == Resolve(stack, name)
  IN IF i > 0
     THEN [scopeStack |-> [stack EXCEPT ![i].used = @ \cup {name}],
           errors |-> IF IsTdz(Get(stack[i].declared, name), loc)
                      THEN Append(errs, TdzError(name, loc))
                      ELSE errs]
     ELSE [scopeStack |-> stack,
           errors |-> Append(errs,
                             NotDefinedError(name, getSuggestion(stack, name), loc))]

\* Mutant of use: once the list holds a diagnostic, uses are no longer resolved.
useUntilFirstDiagnostic(stack, errs, name, loc) ==
  LET i == Resolve(stack, name)
  IN IF errs # <<>>
     THEN [scopeStack |-> stack, errors |-> errs]
     ELSE IF i > 0
     THEN [scopeStack |-> [stack EXCEPT ![i].used = @ \cup {name}],
           errors |-> IF IsTdz(Get(stack[i].declared, name), loc)
                      THEN Append(errs, TdzError(name, loc))
                      ELSE errs]
     ELSE IF IsGlobal(name)
     THEN [scopeStack |-> stack, errors |-> errs]
     ELSE [scopeStack |-> stack,
           errors |-> Append(errs,
                             NotDefinedError(name, getSuggestion(stack, name), loc))]

use(stack, errs, name, loc) ==
  LET i == Resolve(stack, name)
  IN IF i > 0
     THEN [scopeStack |-> [stack EXCEPT ![i].used = @ \cup {name}],
           errors |-> IF IsTdz(Get(stack[i].declared, name), loc)
                      THEN Append(errs, TdzError(name, loc))
                      ELSE errs]
     ELSE IF IsGlobal(name)
     THEN [scopeStack |-> stack, errors |-> errs]
     ELSE [scopeStack |-> stack,
           errors |-> Append(errs,
                             NotDefinedError(name, getSuggestion(stack, name), loc))]

\* Mutant of IsSkipped: the member-property test is missing.
IsSkippedNoMember(node) ==
  node.role \in {"declId", "funcId", "funcParam", "arrowParam"}

\* The Identifier visitor returns early for a declarator's id, a function's id,
\* a parameter of its own function, and a non-computed member property.
IsSkipped(node) ==
  node.role \in {"declId", "funcId", "funcParam", "arrowParam", "memberProp"}

RECURSIVE declareParamsFrom(_, _, _, _, _)
declareParamsFrom(stack, p, fn, i, last) ==
  IF i > last THEN stack
  ELSE IF IsParam(p, i) /\ Parent(p, i) = fn
       THEN declareParamsFrom(declare(stack, p[i].name, "param", Loc(p[i]),
                                      p[i].start, p[i].end),
                              p, fn, i + 1, last)
       ELSE declareParamsFrom(stack, p, fn, i + 1, last)

\* path.node.params.forEach: the entries of type Identifier are declared.
declareParams(stack, p, fn) ==
  declareParamsFrom(stack, p, fn, fn + 1, Close(p, fn) - 1)

(* ----------------------------- visitor --------------------------------- *)

AtNode(type, ev) ==
  /\ pc \in 1..Len(prog)
  /\ prog[pc].type = type
  /\ prog[pc].ev = ev

Pop ==
  LET r == exitScope(scopeStack, errors, reportedUnused)
  IN /\ scopeStack' = r.scopeStack
     /\ errors' = r.errors
     /\ reportedUnused' = r.reportedUnused

ProgramEnter ==
  /\ pc = 0
  /\ scopeStack' = hoistDeclarations(enterScope(scopeStack), prog, 0)
  /\ pc' = 1
  /\ UNCHANGED <<prog, errors, reportedUnused, earlier, app, lev>>

ProgramExit ==
  /\ pc = Len(prog) + 1
  /\ Pop
  /\ pc' = pc + 1
  /\ UNCHANGED <<prog, earlier, app, lev>>

BlockStatementEnter ==
  /\ AtNode("BlockStatement", "enter")
  /\ scopeStack' = hoistDeclarations(enterScope(scopeStack), prog, pc)
  /\ pc' = pc + 1
  /\ UNCHANGED <<prog, errors, reportedUnused, earlier, app, lev>>

BlockStatementExit ==
  /\ AtNode("BlockStatement", "exit")
  /\ Pop
  /\ pc' = pc + 1
  /\ UNCHANGED <<prog, earlier, app, lev>>

FunctionDeclarationEnter ==
  /\ AtNode("FunctionDeclaration", "enter")
  /\ LET node == prog[pc]
         named == IF node.name # NoName
                  THEN declare(scopeStack, node.name, "function", Loc(node),
                               node.start, node.end)
                  ELSE scopeStack
         hoisted == hoistDeclarations(enterScope(named), prog, pc)
     IN scopeStack' = declareParams(hoisted, prog, pc)
  /\ pc' = pc + 1
  /\ UNCHANGED <<prog, errors, reportedUnused, earlier, app, lev>>

FunctionDeclarationExit ==
  /\ AtNode("FunctionDeclaration", "exit")
  /\ Pop
  /\ pc' = pc + 1
  /\ UNCHANGED <<prog, earlier, app, lev>>

ArrowFunctionExpressionEnter ==
  /\ AtNode("ArrowFunctionExpression", "enter")
  /\ LET hoisted == hoistDeclarations(enterScope(scopeStack), prog, pc)
     IN scopeStack' = declareParams(hoisted, prog, pc)
  /\ pc' = pc + 1
  /\ UNCHANGED <<prog, errors, reportedUnused, earlier, app, lev>>

ArrowFunctionExpressionExit ==
  /\ AtNode("ArrowFunctionExpression", "exit")
  /\ Pop
  /\ pc' = pc + 1
  /\ UNCHANGED <<prog, earlier, app, lev>>

Identifier ==
  /\ AtNode("Identifier", "visit")
  /\ LET node == prog[pc]
         r == use(scopeStack, errors, node.name, Loc(node))
     IN IF IsSkipped(node)
        THEN UNCHANGED <<scopeStack, errors>>
        ELSE /\ scopeStack' = r.scopeStack
             /\ errors' = r.errors
  /\ pc' = pc + 1
  /\ UNCHANGED <<prog, reportedUnused, earlier, app, lev>>

Next ==
  \/ ProgramEnter
  \/ ProgramExit
  \/ BlockStatementEnter
  \/ BlockStatementExit
  \/ FunctionDeclarationEnter
  \/ FunctionDeclarationExit
  \/ ArrowFunctionExpressionEnter
  \/ ArrowFunctionExpressionExit
  \/ Identifier

\* lintCode starts with an empty list, an empty stack and an empty set.
Fresh ==
  /\ pc = 0
  /\ scopeStack = <<>>
  /\ errors = <<>>
  /\ reportedUnused = {}

Init ==
  /\ prog \in Programs(ProgVocabulary, MaxSize, Layouts) \cup {DEFAULT_CODE}
  /\ Fresh
  /\ earlier = NoCall
  /\ Unmounted

InitSuggest ==
  /\ prog \in Programs(SuggestVocabulary, MaxSize, {"oneLine"})
  /\ Fresh
  /\ earlier = NoCall
  /\ Unmounted

\* The same visitor on programs whose names are close to one another.
SpecSuggest == InitSuggest /\ [][Next]_vars

Spec == Init /\ [][Next]_vars

(* ------------------- Babel.transform and the catch ---------------------- *)

\* The vocabulary of the runs that start from a text the parser may reject.
ParseVocabulary == Vocabulary({nA}, {nA}, {nA}, {"var", "let"})

\* The texts of at most maxSize items over the vocabulary v, redeclarations
\* included, each as the nodes its text is made of.
Texts(v, maxSize, layouts) ==
  {Annotate(raw, layout) : raw \in RawPrograms(v, maxSize), layout \in layouts}

\* The binding at p[j] cannot coexist with the binding at p[i].
Conflicts(p, i, j) ==
  /\ i # j
  /\ p[i].name = p[j].name
  /\ \/ /\ IsLexical(p, i) /\ IsLexical(p, j)
        /\ Parent(p, i) = Parent(p, j)
     \/ /\ IsLexical(p, i) /\ IsVarLike(p, j)
        /\ Parent(p, i) \in VarScopes(p, j)
     \/ /\ IsLexical(p, j) /\ IsVarLike(p, i)
        /\ Parent(p, j) \in VarScopes(p, i)
     \/ /\ IsLexical(p, j) /\ IsParamBinding(p, i)
        /\ IsFunctionBody(p, Parent(p, j))
        /\ Parent(p, i) = Parent(p, Parent(p, j))

\* The bindings that redeclare an earlier one.
Redeclarations(p) ==
  {j \in 1..Len(p) : \E i \in 1..(j - 1) : Conflicts(p, i, j)}

\* The identifier at which the parser gives up: the id of the first binding
\* that redeclares an earlier one.
OffendingId(p) ==
  LET j == CHOOSE k \in Redeclarations(p) : \A m \in Redeclarations(p) : k <= m
  IN IF IsFunctionDecl(p, j) THEN j + 1 ELSE j

\* What Babel.transform throws on a rejected text: a SyntaxError whose loc is
\* the position of the offending identifier (column counted from 0).  The catch
\* clause takes `err: any` and reads err.loc optionally, so a thrown value
\* without loc is an input of the handler as well.
Thrown(p) ==
  IF Redeclarations(p) = {} THEN {}
  ELSE { [hasLoc |-> TRUE, loc |-> Loc(p[OffendingId(p)])],
         [hasLoc |-> FALSE, loc |-> [line |-> 0, column |-> 0]] }

\* Mutant of SyntaxDiagnostic: the position is always the fallback.
SyntaxDiagnosticNoLoc(err) ==
  [message |-> [text |-> "err.message", name |-> NoName,
                suggestion |-> NoSuggestion],
   line |-> 1, column |-> 1,
   severity |-> "error", ruleId |-> "syntax", fix |-> NoFix]

\* The diagnostic the catch clause pushes.
SyntaxDiagnostic(err) ==
  [message |-> [text |-> "err.message", name |-> NoName,
                suggestion |-> NoSuggestion],
   line |-> IF err.hasLoc THEN err.loc.line ELSE 1,
   column |-> IF err.hasLoc THEN err.loc.column ELSE 1,
   severity |-> "error", ruleId |-> "syntax", fix |-> NoFix]

\* lintCode has been called and Babel.transform has not parsed the text yet.
Called == pc = 0 - 1

\* Babel.transform parses the text and starts the traversal.
BabelTransform ==
  /\ Called
  /\ ParserAccepts(prog)
  /\ pc' = 0
  /\ UNCHANGED <<prog, scopeStack, errors, reportedUnused, earlier, app, lev>>

\* Babel.transform throws before any visitor runs; the catch clause pushes one
\* diagnostic and lintCode returns.
CatchOf(err) ==
  /\ Called
  /\ ~ParserAccepts(prog)
  /\ errors' = Append(errors, SyntaxDiagnostic(err))
  /\ pc' = Len(prog) + 2
  /\ UNCHANGED <<prog, scopeStack, reportedUnused, earlier, app, lev>>

Catch == \E err \in Thrown(prog) : CatchOf(err)

NextText ==
  \/ BabelTransform
  \/ Catch
  \/ ProgramEnter
  \/ ProgramExit
  \/ BlockStatementEnter
  \/ BlockStatementExit
  \/ FunctionDeclarationEnter
  \/ FunctionDeclarationExit
  \/ ArrowFunctionExpressionEnter
  \/ ArrowFunctionExpressionExit
  \/ Identifier

InitText ==
  /\ prog \in Texts(ParseVocabulary, MaxSize, Layouts)
  /\ Called
  /\ scopeStack = <<>>
  /\ errors = <<>>
  /\ reportedUnused = {}
  /\ earlier = NoCall
  /\ Unmounted

\* lintCode from its call, on texts the parser accepts and on texts it rejects.
SpecText == InitText /\ [][NextText]_vars


(* --------------------------- repeated calls ---------------------------- *)

\* The vocabulary of the runs that call lintCode again and again.
CallVocabulary == Vocabulary({nA}, {nA}, {nA}, {"let"})

\* Largest number of AST items of an input of a session of calls.
MaxCallSize == 2

CallInputs == Programs(CallVocabulary, MaxCallSize, {"oneLine"})

\* Mutant of NewLocals: the set of reported declarations outlives the call.
NewLocalsSharedSet ==
  /\ scopeStack' = <<>>
  /\ errors' = <<>>
  /\ reportedUnused' = reportedUnused

\* errors, scopeStack and reportedUnused are locals of lintCode: every call
\* makes its own.
NewLocals ==
  /\ scopeStack' = <<>>
  /\ errors' = <<>>
  /\ reportedUnused' = {}

\* The call that has just returned, as the history keeps it.
ThisCall == [input |-> prog, output |-> errors, interleaved |-> FALSE]

\* The history after one more call has returned: that call is remembered, or the
\* one remembered before is kept, now with a call between it and the next.
Remembered ==
  {ThisCall} \cup (IF earlier = NoCall THEN {NoCall}
                   ELSE {[earlier EXCEPT !.interleaved = TRUE]})

\* The previous call has returned and lintCode is called on some input, the
\* same one or another.
lintCode ==
  /\ Done
  /\ prog' \in CallInputs
  /\ pc' = 0
  /\ NewLocals
  /\ earlier' \in Remembered
  /\ UNCHANGED <<app, lev>>

NextCalls ==
  \/ lintCode
  \/ ProgramEnter
  \/ ProgramExit
  \/ BlockStatementEnter
  \/ BlockStatementExit
  \/ FunctionDeclarationEnter
  \/ FunctionDeclarationExit
  \/ ArrowFunctionExpressionEnter
  \/ ArrowFunctionExpressionExit
  \/ Identifier

InitCalls ==
  /\ prog \in CallInputs
  /\ Fresh
  /\ earlier = NoCall
  /\ Unmounted

\* A session of calls of lintCode, one after the other.
SpecCalls == InitCalls /\ [][NextCalls]_vars

(* --------------------------- shadowing runs ----------------------------- *)

\* Largest number of AST items of a program of the shadowing runs: room for a
\* block with a declarator and a reference, and a declarator outside it.
MaxShadowSize == 4

\* The vocabulary of the shadowing runs: one name, block-scoped declarations.
ShadowVocabulary == Vocabulary({nA}, {nA}, {nA}, {"let"})

InitShadow ==
  /\ prog \in Programs(ShadowVocabulary, MaxShadowSize, Layouts)
  /\ Fresh
  /\ earlier = NoCall
  /\ Unmounted

\* The same visitor on programs that declare one name in several scopes.
SpecShadow == InitShadow /\ [][Next]_vars

(* ------------------------ equally near candidates ----------------------- *)

\* The vocabulary of the tie runs: `ac` and `cb` are equally near to `ab`, `Ab`
\* is as near and differs from it by case only; `conso` is as near to `consol`
\* as the ambient `console`.
TieVocabulary ==
  Vocabulary({nac, ncb, nAb, nConso}, {nab, nConsol}, {ncb}, {"let"})

InitTie ==
  /\ prog \in Programs(TieVocabulary, MaxSize, {"oneLine"})
  /\ Fresh
  /\ earlier = NoCall
  /\ Unmounted

\* The same visitor on programs with several candidates at the same distance.
SpecTie == InitTie /\ [][Next]_vars

(* ------------------------------ App.tsx -------------------------------- *)

\* Largest number of AST items of a text typed into the editor.
MaxAppSize == 2

AppVocabulary == Vocabulary({nA}, {nA}, {}, {"let"})

\* The programs the editor holds: declarations, references and blocks.
AppPrograms ==
  {r \in RawPrograms(AppVocabulary, MaxAppSize) :
     /\ ParserAccepts(r)
     /\ \A i \in 1..Len(r) : r[i].type \in {"Identifier", "BlockStatement"}}

KeywordText(kind) ==
  IF kind = "let" THEN <<"l", "e", "t", " ">>
  ELSE IF kind = "var" THEN <<"v", "a", "r", " ">>
  ELSE <<"c", "o", "n", "s", "t", " ">>

\* The characters a node contributes to the text of its program.
Token(n) ==
  IF n.type = "BlockStatement"
  THEN (IF n.ev = "enter" THEN <<"{">> ELSE <<"}">>)
  ELSE (IF n.role = "declId" THEN KeywordText(n.kind) ELSE <<>>)
       \o n.name \o <<";">>

RECURSIVE TextFrom(_, _)
TextFrom(raw, i) ==
  IF i > Len(raw) THEN <<>> ELSE Token(raw[i]) \o TextFrom(raw, i + 1)

\* The text of a program, laid out on one line.
TextOf(raw) == TextFrom(raw, 1)

\* The values of `code`: the empty text, a text of white space, the texts of
\* the programs.
AppCodes == {<<>>, <<" ", "\n">>} \cup {TextOf(r) : r \in AppPrograms}

IsWhiteSpace(ch) == ch \in {" ", "\n", "\t"}

RECURSIVE trimStart(_)
trimStart(text) ==
  IF text # <<>> /\ IsWhiteSpace(Head(text)) THEN trimStart(Tail(text)) ELSE text

RECURSIVE trimEnd(_)
trimEnd(text) ==
  IF text # <<>> /\ IsWhiteSpace(text[Len(text)])
  THEN trimEnd(SubSeq(text, 1, Len(text) - 1))
  ELSE text

\* String.prototype.trim
trim(text) == trimEnd(trimStart(text))

\* The AST Babel builds from a text of AppCodes.
Parse(text) ==
  IF trim(text) = <<>> THEN <<>>
  ELSE Annotate(CHOOSE r \in AppPrograms : TextOf(r) = text, "oneLine")

RECURSIVE traverse(_, _, _, _, _)

\* The visitor from node i of p on, as one computation: what the handlers above
\* do step by step; the value is the list at Program.exit.
traverse(p, i, stack, errs, reported) ==
  IF i = 0
  THEN traverse(p, 1, hoistDeclarations(enterScope(stack), p, 0), errs, reported)
  ELSE IF i = Len(p) + 1
  THEN exitScope(stack, errs, reported).errors
  ELSE
    LET node == p[i]
        popped == exitScope(stack, errs, reported)
        named == IF node.name # NoName
                 THEN declare(stack, node.name, "function", Loc(node),
                              node.start, node.end)
                 ELSE stack
        used == use(stack, errs, node.name, Loc(node))
    IN IF node.ev = "exit"
       THEN traverse(p, i + 1, popped.scopeStack, popped.errors,
                     popped.reportedUnused)
       ELSE IF node.type = "BlockStatement"
       THEN traverse(p, i + 1, hoistDeclarations(enterScope(stack), p, i),
                     errs, reported)
       ELSE IF node.type = "FunctionDeclaration"
       THEN traverse(p, i + 1,
                     declareParams(hoistDeclarations(enterScope(named), p, i),
                                   p, i),
                     errs, reported)
       ELSE IF node.type = "ArrowFunctionExpression"
       THEN traverse(p, i + 1,
                     declareParams(hoistDeclarations(enterScope(stack), p, i),
                                   p, i),
                     errs, reported)
       ELSE IF IsSkipped(node)
       THEN traverse(p, i + 1, stack, errs, reported)
       ELSE traverse(p, i + 1, used.scopeStack, used.errors, reported)

\* What lintCode returns for a text.
lintCodeResult(source) == traverse(Parse(source), 0, <<>>, <<>>, {})

\* lintCode on the texts of AppCodes.
Linted == [source \in AppCodes |-> lintCodeResult(source)]

\* Mutant of runLint: lintCode is called on every source.
runLintAlways(source) == [errors |-> Linted[source], invoked |-> TRUE]

\* runLint: the list handed to setErrors, and whether lintCode was called.
runLint(source) ==
  IF trim(source) = <<>>
  THEN [errors |-> <<>>, invoked |-> FALSE]
  ELSE [errors |-> Linted[source], invoked |-> TRUE]

\* Mutant of effect: the timeout of the previous run is left alone.
effectNoCleanup(pending, previous, current) == pending \cup {current}

\* The effect on [code, runLint] when code has changed: the cleanup of the
\* previous run clears its timeout, then a timeout is set for the new code.
effect(pending, previous, current) == (pending \ {previous}) \cup {current}

\* The locals of lintCode, which the page does not see.
locals == <<prog, pc, scopeStack, errors, reportedUnused, earlier, lev>>

\* The editor reports a new text: setCode, then the effect runs again.
setCode(value) ==
  /\ value # code
  /\ code' = value
  /\ timers' = effect(timers, code, value)
  /\ hist' = [hist EXCEPT !.cleared = code \in timers]
  /\ UNCHANGED <<displayed, locals>>

onChange == \E value \in AppCodes : setCode(value)

\* The callback of setTimeout runs after 400 ms: runLint(code), with the code
\* of the render that set it.
timeoutOf(source) ==
  /\ source \in timers
  /\ timers' = timers \ {source}
  /\ displayed' = runLint(source).errors
  /\ hist' = [hist EXCEPT !.by = "timeout", !.source = source,
                          !.invoked = runLint(source).invoked]
  /\ UNCHANGED <<code, locals>>

timeout == \E source \in timers : timeoutOf(source)

\* The Lint button, disabled while the code is blank.
handleLintNow ==
  /\ trim(code) # <<>>
  /\ displayed' = runLint(code).errors
  /\ hist' = [hist EXCEPT !.by = "button", !.source = code,
                          !.invoked = runLint(code).invoked]
  /\ UNCHANGED <<code, timers, locals>>

\* The Clear button: setCode(""), setErrors([]); the effect runs again when the
\* code was not empty already.
handleClear ==
  /\ code' = <<>>
  /\ displayed' = <<>>
  /\ timers' = IF code # <<>> THEN effect(timers, code, <<>>) ELSE timers
  /\ hist' = IF code # <<>> THEN [hist EXCEPT !.cleared = code \in timers]
             ELSE hist
  /\ UNCHANGED locals

NextApp ==
  \/ onChange
  \/ timeout
  \/ handleLintNow
  \/ handleClear

\* The page after mounting: code from getInitialCode, no diagnostics, and the
\* timeout the effect has set.
InitApp ==
  /\ code \in AppCodes
  /\ displayed = <<>>
  /\ timers = {code}
  /\ hist = NoRun
  /\ prog = <<>>
  /\ Fresh
  /\ earlier = NoCall
  /\ lev = NoStrings

SpecApp == InitApp /\ [][NextApp]_vars

\* The browser runs a timeout that stays set.
SpecAppFair == SpecApp /\ WF_vars(timeout)

(* --------------------------- levenshtein ------------------------------- *)

\* Longest string handed to levenshtein on its own.
MaxLen == 3

Alphabet == {"a", "b"}

\* The strings of at most n characters.
Strings(n) == UNION {[1..k -> Alphabet] : k \in 0..n}

\* levenshtein(a, b) returns.
levenshteinCall ==
  /\ lev.ab = NotCalled
  /\ lev' = [lev EXCEPT !.ab = levenshtein(lev.a, lev.b)]
  /\ UNCHANGED <<prog, pc, scopeStack, errors, reportedUnused, earlier, app>>

\* levenshtein(b, a) returns.
levenshteinSwapped ==
  /\ lev.ba = NotCalled
  /\ lev' = [lev EXCEPT !.ba = levenshtein(lev.b, lev.a)]
  /\ UNCHANGED <<prog, pc, scopeStack, errors, reportedUnused, earlier, app>>

NextLev ==
  \/ levenshteinCall
  \/ levenshteinSwapped

InitLev ==
  /\ lev \in [a : Strings(MaxLen), b : Strings(MaxLen),
              ab : {NotCalled}, ba : {NotCalled}]
  /\ prog = <<>>
  /\ Fresh
  /\ earlier = NoCall
  /\ code = <<>>
  /\ displayed = <<>>
  /\ timers = {}
  /\ hist = NoRun

SpecLev == InitLev /\ [][NextLev]_vars

(* ------------------------ reading the result --------------------------- *)

\* An identifier occurrence that refers to a binding.
IsReference(p, i) ==
  p[i].type = "Identifier" /\ p[i].role \in {"ref", "memberPropComputed"}

\* A node that binds p[i].name: a declarator, a function declaration, a
\* parameter.
IsBinding(p, i) ==
  IsDeclarator(p, i) \/ IsFunctionDecl(p, i) \/ IsParamBinding(p, i)

IsUnusedWarning(e) == e.message.text = "is declared but never used"

IsTdzError(e) == e.message.text = "is used before declaration (TDZ)"

IsNotDefinedError(e) == e.message.text = "is not defined"

At(e, node) == e.line = node.line /\ e.column = node.column

\* The nodes the traversal has passed.
Visited == 1..Min2(pc - 1, Len(prog))

\* The unused warnings of the list for the declaration node prog[d].
UnusedWarningsOf(d) ==
  {k \in 1..Len(errors) :
     /\ IsUnusedWarning(errors[k])
     /\ errors[k].message.name = prog[d].name
     /\ errors[k].fix.start = prog[d].start}

\* The TDZ errors of the list for the reference prog[r].
TdzErrorsOf(r) ==
  {k \in 1..Len(errors) :
     /\ IsTdzError(errors[k])
     /\ errors[k].message.name = prog[r].name
     /\ At(errors[k], prog[r])}

NeverReferenced(name) ==
  \A r \in 1..Len(prog) : IsReference(prog, r) => prog[r].name # name

(* ------------------------------ claims --------------------------------- *)

\* C1 (as claimed): in the returned list, a reference that follows a var/let/
\* const declaration of its name in the same scope, at any nesting depth, has no
\* TDZ error, and that declaration has no unused warning.
C1_UseAfterDeclInSameScope ==
  Done =>
    \A d, r \in 1..Len(prog) :
      (/\ IsDeclarator(prog, d)
       /\ IsReference(prog, r)
       /\ prog[r].name = prog[d].name
       /\ d < r
       /\ Parent(prog, r) = Parent(prog, d))
      => TdzErrorsOf(r) = {} /\ UnusedWarningsOf(d) = {}

\* C2: a name bound exactly once in the program, by a declarator, and never
\* referenced gets exactly one unused warning, whose fix removes exactly the
\* declarator's span.
C2_OneWarningForUnusedDeclarator ==
  Done =>
    \A d \in 1..Len(prog) :
      (/\ IsDeclarator(prog, d)
       /\ \A j \in 1..Len(prog) :
            (IsBinding(prog, j) /\ prog[j].name = prog[d].name) => j = d
       /\ NeverReferenced(prog[d].name))
      => \E k \in 1..Len(errors) :
           /\ IsUnusedWarning(errors[k])
           /\ errors[k].message.name = prog[d].name
           /\ errors[k].fix = [type |-> "remove", start |-> prog[d].start,
                               end |-> prog[d].end]
           /\ \A m \in 1..Len(errors) :
                (IsUnusedWarning(errors[m])
                 /\ errors[m].message.name = prog[d].name) => m = k

\* C2 witness: the analysis has finished on a program whose only binding of a
\* name is an unreferenced declarator inside a function body, registered in the
\* program, function and body scopes, and the list holds its warning.
C2_Witness ==
  /\ Done
  /\ \E d \in 1..Len(prog) :
       /\ IsDeclarator(prog, d)
       /\ IsFunctionBody(prog, Parent(prog, d))
       /\ \A j \in 1..Len(prog) :
            (IsBinding(prog, j) /\ prog[j].name = prog[d].name) => j = d
       /\ NeverReferenced(prog[d].name)
       /\ UnusedWarningsOf(d) # {}

\* C3 (as claimed): in the returned list, a reference on a line strictly before
\* the line of the `let` declaration of its name in the same scope has exactly
\* one TDZ error, at the reference, and the declaration has no unused warning.
C3_UseBeforeLetInSameScope ==
  Done =>
    \A d, r \in 1..Len(prog) :
      (/\ IsDeclarator(prog, d)
       /\ prog[d].kind = "let"
       /\ IsReference(prog, r)
       /\ prog[r].name = prog[d].name
       /\ prog[r].line < prog[d].line
       /\ Parent(prog, r) = Parent(prog, d))
      => Cardinality(TdzErrorsOf(r)) = 1 /\ UnusedWarningsOf(d) = {}


\* A step of the Identifier visitor that reaches use().
UseStep ==
  /\ AtNode("Identifier", "visit")
  /\ ~IsSkipped(prog[pc])
  /\ pc' = pc + 1

\* Some scope of the stack declares `name`.
Visible(name) ==
  \E i \in 1..Len(scopeStack) :
    \E k \in 1..Len(scopeStack[i].declared) :
      scopeStack[i].declared[k].name = name

\* C4: a use that no scope of the stack resolves appends exactly one error
\* "'<name>' is not defined" at the reference when the name is not ambient, and
\* changes neither the list nor the used sets when it is ambient; a use that some
\* scope resolves appends no "not defined" error, ambient name or not.
C4_UndefinedOrAmbient ==
  [][UseStep =>
       LET node == prog[pc]
       IN IF ~Visible(node.name)
          THEN IF node.name \notin Range(GLOBALS)
               THEN /\ Len(errors') = Len(errors) + 1
                    /\ SubSeq(errors', 1, Len(errors)) = errors
                    /\ LET e == errors'[Len(errors')]
                       IN /\ e.severity = "error"
                          /\ IsNotDefinedError(e)
                          /\ e.message.name = node.name
                          /\ At(e, node)
               ELSE errors' = errors /\ scopeStack' = scopeStack
          ELSE \A k \in (Len(errors) + 1)..Len(errors') :
                 ~IsNotDefinedError(errors'[k])
  ]_vars

\* C4 witness: the traversal has passed a reference to an undeclared name that
\* is not ambient, which has its error, and a reference to an ambient name that
\* the program binds nowhere, which has none.
C4_Witness ==
  \E r1, r2 \in Visited :
    /\ IsReference(prog, r1) /\ prog[r1].name \notin Range(GLOBALS)
    /\ \E k \in 1..Len(errors) :
         /\ IsNotDefinedError(errors[k])
         /\ errors[k].message.name = prog[r1].name
         /\ At(errors[k], prog[r1])
    /\ IsReference(prog, r2) /\ prog[r2].name \in Range(GLOBALS)
    /\ \A k \in 1..Len(errors) : ~At(errors[k], prog[r2])
    /\ \A b \in 1..Len(prog) :
         ~(IsBinding(prog, b) /\ prog[b].name = prog[r2].name)

\* The declaration a reference to `name` resolves to: that of the innermost
\* scope declaring it.
ResolvedDecl(name) ==
  LET holders == {i \in 1..Len(scopeStack) : Has(scopeStack[i].declared, name)}
      inner == CHOOSE i \in holders : \A j \in holders : j <= i
  IN Get(scopeStack[inner].declared, name)

\* C5: a resolved reference appends a TDZ error, at the reference, exactly when
\* the declaration it resolves to is a let, const or parameter whose line is
\* greater than the reference's line; otherwise it appends nothing.
C5_TdzExactlyWhenEarlierLine ==
  [][(UseStep /\ Visible(prog[pc].name)) =>
       LET node == prog[pc]
           decl == ResolvedDecl(node.name)
       IN IF decl.kind \in {"let", "const", "param"} /\ node.line < decl.loc.line
          THEN /\ Len(errors') = Len(errors) + 1
               /\ SubSeq(errors', 1, Len(errors)) = errors
               /\ LET e == errors'[Len(errors')]
                  IN /\ IsTdzError(e)
                     /\ e.severity = "error"
                     /\ e.message.name = node.name
                     /\ At(e, node)
          ELSE errors' = errors
  ]_vars

\* C5 witness: the list holds a TDZ error for a reference that resolved to a
\* parameter declared on a later line.
C5_Witness ==
  \E r \in Visited, b \in 1..Len(prog) :
    /\ IsReference(prog, r) /\ IsParam(prog, b)
    /\ prog[b].name = prog[r].name
    /\ Parent(prog, b) = Parent(prog, r)
    /\ prog[r].line < prog[b].line
    /\ TdzErrorsOf(r) # {}


\* The edit distance, by the textbook recurrence, one full row after another.
RECURSIVE EditRow(_, _, _, _, _)
EditRow(prev, ch, b, j, row) ==
  IF j > Len(b) THEN row
  ELSE LET sub == prev[j] + (IF ch = b[j] THEN 0 ELSE 1)
           del == prev[j + 1] + 1
           ins == row[j] + 1
       IN EditRow(prev, ch, b, j + 1, Append(row, Min2(Min2(del, ins), sub)))

RECURSIVE EditRows(_, _, _, _)
EditRows(prev, a, b, i) ==
  IF i > Len(a) THEN prev
  ELSE EditRows(EditRow(prev, a[i], b, 1, <<prev[1] + 1>>), a, b, i + 1)

EditDistance(a, b) ==
  EditRows([j \in 1..(Len(b) + 1) |-> j - 1], a, b, 1)[Len(b) + 1]

\* The names some scope of the stack declares, and the ambient names.
CandidateSet ==
  UNION {{scopeStack[i].declared[k].name : k \in 1..Len(scopeStack[i].declared)}
           : i \in 1..Len(scopeStack)}
  \cup Range(GLOBALS)

\* The candidates that differ from `name` by letter case only.
CaseTwins(name) ==
  {c \in CandidateSet : toLowerCase(c) = toLowerCase(name) /\ c # name}

\* 1 for a name of at most 3 characters, 2 for at most 6, otherwise 3.
SuggestBound(name) ==
  IF Len(name) <= 3 THEN 1 ELSE IF Len(name) <= 6 THEN 2 ELSE 3

\* The candidates whose length difference and edit distance are within the
\* bound.
CloseCandidates(name) ==
  {c \in CandidateSet :
     /\ Len(c) - Len(name) <= SuggestBound(name)
     /\ Len(name) - Len(c) <= SuggestBound(name)
     /\ EditDistance(name, c) <= SuggestBound(name)}

\* A step of use() on a name that no scope declares and that is not ambient.
UndefinedStep ==
  /\ UseStep
  /\ ~Visible(prog[pc].name)
  /\ prog[pc].name \notin Range(GLOBALS)

\* The suggestion in the message of the last diagnostic of a list.
LastSuggestion(errs) == errs[Len(errs)].message.suggestion

\* C6: for an undefined name with no case-insensitive match, the message has a
\* suggestion exactly when some candidate is within the bound in length
\* difference and in edit distance, and the suggestion is such a candidate of
\* smallest distance.
C6_SuggestionWithinBound ==
  [][(UndefinedStep /\ CaseTwins(prog[pc].name) = {}) =>
       LET name == prog[pc].name
           close == CloseCandidates(name)
           s == LastSuggestion(errors')
       IN /\ Len(errors') = Len(errors) + 1
          /\ (s # NoSuggestion) <=> (close # {})
          /\ close # {} =>
               /\ s \in close
               /\ \A c \in close : EditDistance(name, s) <= EditDistance(name, c)
  ]_vars

ErrorFor(name, suggestion) ==
  \E k \in 1..Len(errors) :
    /\ IsNotDefinedError(errors[k])
    /\ errors[k].message.name = name
    /\ errors[k].message.suggestion = suggestion

\* C6 witness: with `cons` declared, `consol` was reported with the suggestion
\* `console`, the nearer of its two close candidates, and `ab` was reported
\* with the bare message.
C6_Witness ==
  /\ ErrorFor(nConsol, nConsole)
  /\ ErrorFor(nab, NoSuggestion)
  /\ \E d \in 1..Len(prog) : IsDeclarator(prog, d) /\ prog[d].name = nCons

\* What the bounded edit-distance step selects.
EditStepChoice(name) ==
  bestCandidate(Candidates(scopeStack), name, 1, NoBest).name

\* C7 (as claimed): the case-insensitive step selects a candidate only when
\* exactly one candidate differs from the name by case only; with two or more,
\* the suggestion is the one the edit-distance step selects.
C7_UniqueCaseMatchOnly ==
  [][UndefinedStep =>
       LET name == prog[pc].name
           twins == CaseTwins(name)
           s == LastSuggestion(errors')
       IN /\ Cardinality(twins) = 1 => s \in twins
          /\ Cardinality(twins) >= 2 => s = EditStepChoice(name)
  ]_vars

\* C7 (amended): whenever some candidate differs from the name by case only, be
\* it one or several, the suggestion is the first such candidate in candidate
\* order; the edit-distance step decides only when there is none.
C7_FirstCaseMatch ==
  [][UndefinedStep =>
       LET name == prog[pc].name
           twins == CaseTwins(name)
           order == Candidates(scopeStack)
           s == LastSuggestion(errors')
       IN /\ twins # {} =>
               \E k \in 1..Len(order) :
                 /\ order[k] = s
                 /\ s \in twins
                 /\ \A j \in 1..(k - 1) : order[j] \notin twins
          /\ twins = {} => s = EditStepChoice(name)
  ]_vars

\* C7 witness: the last node passed is an undefined name with two candidates
\* that differ from it by case only; it was reported with the first of them,
\* which is not the candidate the edit-distance step selects.
C7_Witness ==
  /\ pc - 1 \in Visited
  /\ IsReference(prog, pc - 1)
  /\ ~Visible(prog[pc - 1].name)
  /\ errors # <<>>
  /\ IsNotDefinedError(errors[Len(errors)])
  /\ At(errors[Len(errors)], prog[pc - 1])
  /\ Cardinality(CaseTwins(prog[pc - 1].name)) >= 2
  /\ LastSuggestion(errors) \in CaseTwins(prog[pc - 1].name)
  /\ LastSuggestion(errors) # EditStepChoice(prog[pc - 1].name)

\* C8: the analysis of the application's default program returns an empty
\* list.
C8_DefaultProgramClean ==
  (Done /\ prog = DEFAULT_CODE) => errors = <<>>

\* C8 witness: the analysis of the default program has finished, having
\* reported no declaration as unused.
C8_Witness ==
  /\ Done
  /\ prog = DEFAULT_CODE
  /\ reportedUnused = {}

\* C9 (as claimed): two let/const declarators of one name that sit in two
\* different scopes, the name never referenced, each have their own unused
\* warning in the returned list, whichever comes first and whichever scope
\* encloses the other.
C9_WarningPerDeclaration ==
  Done =>
    \A d1, d2 \in 1..Len(prog) :
      (/\ d1 # d2
       /\ IsDeclarator(prog, d1) /\ prog[d1].kind \in {"let", "const"}
       /\ IsDeclarator(prog, d2) /\ prog[d2].kind \in {"let", "const"}
       /\ prog[d1].name = prog[d2].name
       /\ Parent(prog, d1) # Parent(prog, d2)
       /\ NeverReferenced(prog[d1].name))
      => UnusedWarningsOf(d1) # {} /\ UnusedWarningsOf(d2) # {}

\* C10: no two unused warnings of the list carry the same declaration span.
C10_OneWarningPerSpan ==
  \A k, m \in 1..Len(errors) :
    (/\ k # m
     /\ IsUnusedWarning(errors[k])
     /\ IsUnusedWarning(errors[m]))
    => <<errors[k].fix.start, errors[k].fix.end>>
         # <<errors[m].fix.start, errors[m].fix.end>>

\* C10 witness: a declaration already reported from a nested scope is still
\* registered, unused, in two enclosing scopes of the stack.
C10_Witness ==
  \E i, j \in 1..Len(scopeStack) :
    /\ i < j
    /\ \E k \in 1..Len(scopeStack[i].declared),
          m \in 1..Len(scopeStack[j].declared) :
         /\ scopeStack[i].declared[k] = scopeStack[j].declared[m]
         /\ scopeStack[i].declared[k].name \notin scopeStack[i].used
         /\ scopeStack[j].declared[m].name \notin scopeStack[j].used
         /\ scopeStack[i].declared[k].startIndex \in reportedUnused

\* The diagnostics of the list positioned at a node.
DiagnosticsAt(node) == {k \in 1..Len(errors) : At(errors[k], node)}

\* The unused warnings of the list that name `name`.
UnusedWarningsNaming(name) ==
  {k \in 1..Len(errors) :
     IsUnusedWarning(errors[k]) /\ errors[k].message.name = name}

\* The first declarator's warning and nothing for the second: the list holds
\* exactly one unused warning for the name, positioned at prog[d1] with the span
\* of prog[d1], and no diagnostic at prog[d2].
FirstWins(d1, d2) ==
  /\ Cardinality(UnusedWarningsNaming(prog[d1].name)) = 1
  /\ \A k \in UnusedWarningsNaming(prog[d1].name) :
       /\ At(errors[k], prog[d1])
       /\ errors[k].fix = [type |-> "remove", start |-> prog[d1].start,
                           end |-> prog[d1].end]
  /\ DiagnosticsAt(prog[d2]) = {}

\* Two declarators of the given kind, of one name, directly in the same scope,
\* prog[d1] before prog[d2], the name never referenced.
TwiceInScope(d1, d2, kind) ==
  /\ d1 < d2
  /\ IsDeclarator(prog, d1) /\ prog[d1].kind = kind
  /\ IsDeclarator(prog, d2) /\ prog[d2].kind = kind
  /\ prog[d1].name = prog[d2].name
  /\ Parent(prog, d1) = Parent(prog, d2)
  /\ NeverReferenced(prog[d1].name)

IsSyntaxDiagnostic(e) == e.ruleId = "syntax"

\* C11 (as claimed): for `let a; let a;` in one scope with a never referenced,
\* the returned list holds exactly one unused warning, at the first declarator
\* and with its span, and no diagnostic at the second declarator.
C11_FirstLetWins ==
  Done =>
    \A d1, d2 \in 1..Len(prog) : TwiceInScope(d1, d2, "let") => FirstWins(d1, d2)

\* C11 (amended): for `var a; var a;` in one scope, the declarators of that
\* scope being the only bindings of a and a never referenced, the returned list
\* holds exactly one unused warning, at the first declarator and with its span,
\* and no diagnostic at the second; for `let a; let a;` in one scope the list is
\* the single syntax diagnostic.
C11_FirstVarWins ==
  Done =>
    \A d1, d2 \in 1..Len(prog) :
      /\ (/\ TwiceInScope(d1, d2, "var")
          /\ \A b \in 1..Len(prog) :
               (IsBinding(prog, b) /\ prog[b].name = prog[d1].name)
                 => /\ IsDeclarator(prog, b) /\ prog[b].kind = "var"
                    /\ Parent(prog, b) = Parent(prog, d1)
                    /\ d1 <= b)
         => FirstWins(d1, d2)
      /\ TwiceInScope(d1, d2, "let")
         => Len(errors) = 1 /\ IsSyntaxDiagnostic(errors[1])

\* C11 witness: the analysis has returned on a text with `var a; var a;` inside
\* a block, a bound nowhere else, and the list holds the warning for the first
\* declarator.
C11_Witness ==
  /\ Done
  /\ \E d1, d2 \in 1..Len(prog) :
       /\ TwiceInScope(d1, d2, "var")
       /\ Parent(prog, d1) # 0
       /\ \A b \in 1..Len(prog) : IsBinding(prog, b) => b \in {d1, d2}
       /\ UnusedWarningsOf(d1) # {}

\* C12 (as claimed): a named function declaration whose name is never referenced
\* has exactly one unused warning in the returned list, positioned at the start
\* of the function declaration, whose fix removes the whole declaration node.
C12_UnusedFunctionWarned ==
  Done =>
    \A f \in 1..Len(prog) :
      (IsFunctionDecl(prog, f) /\ NeverReferenced(prog[f].name))
      => /\ Cardinality(UnusedWarningsOf(f)) = 1
         /\ \A k \in UnusedWarningsOf(f) :
              /\ At(errors[k], prog[f])
              /\ errors[k].fix = [type |-> "remove", start |-> prog[f].start,
                                  end |-> prog[f].end]

\* C13: in a session of calls, a call returns the list that any earlier call on
\* the same input returned, whether the two calls were back to back or had
\* calls on other inputs between them.
C13_SameInputSameList ==
  (Done /\ earlier # NoCall /\ earlier.input = prog) => errors = earlier.output

\* C13 witness: a call has returned a list with an unused warning; an earlier
\* call on the same input, with a call between the two, had returned the same.
C13_Witness ==
  /\ Done
  /\ earlier # NoCall
  /\ earlier.input = prog
  /\ earlier.interleaved
  /\ \E k \in 1..Len(errors) : IsUnusedWarning(errors[k])
  /\ errors = earlier.output

\* C14: when Babel.transform throws, lintCode returns a list of exactly one
\* diagnostic, of severity error and ruleId "syntax", at the line and column the
\* thrown value reports, or at line 1, column 1 when it reports none; when the
\* parser accepts the text, no diagnostic of the list has ruleId "syntax".
C14_OneSyntaxDiagnostic ==
  /\ [][(Called /\ ~ParserAccepts(prog)) =>
          /\ Done'
          /\ Len(errors') = 1
          /\ errors'[1].severity = "error"
          /\ errors'[1].ruleId = "syntax"
          /\ \A err \in Thrown(prog) :
               CatchOf(err) =>
                 IF err.hasLoc
                 THEN /\ errors'[1].line = err.loc.line
                      /\ errors'[1].column = err.loc.column
                 ELSE errors'[1].line = 1 /\ errors'[1].column = 1
     ]_vars
  /\ [](ParserAccepts(prog) =>
          \A k \in 1..Len(errors) : ~IsSyntaxDiagnostic(errors[k]))

\* C14 witness: lintCode has returned on a rejected text whose offending
\* identifier is not on the first line, and the one diagnostic of the list is
\* the syntax diagnostic at that identifier.
C14_Witness ==
  /\ Done
  /\ ~ParserAccepts(prog)
  /\ Len(errors) = 1
  /\ IsSyntaxDiagnostic(errors[1])
  /\ prog[OffendingId(prog)].line > 1
  /\ At(errors[1], prog[OffendingId(prog)])

\* A step that closes a scope.
CloseStep ==
  /\ pc' = pc + 1
  /\ \/ pc = Len(prog) + 1
     \/ pc \in 1..Len(prog) /\ prog[pc].ev = "exit"

\* The node whose scope a CloseStep closes; 0 is the Program.
ClosingScope == IF pc = Len(prog) + 1 THEN 0 ELSE Open(prog, pc)

\* The diagnostics a step appends.
Appended == (Len(errors) + 1)..Len(errors')

\* The bindings a warning can be about: those with its name and its span.
BindingsOf(w) ==
  {d \in 1..Len(prog) :
     /\ IsBinding(prog, d)
     /\ prog[d].name = w.message.name
     /\ prog[d].start = w.fix.start
     /\ prog[d].end = w.fix.end}

\* C15 (as claimed): the list only grows, at its end, and an unused warning is
\* appended by the step that closes the scope lexically containing its
\* declaration: no other step appends one, so the warning follows the errors of
\* that scope's body, precedes whatever is detected after the scope has closed,
\* and an inner scope's warnings precede those of the scope around it.
C15_WarningWhenOwnScopeCloses ==
  [][/\ Len(errors') >= Len(errors)
     /\ SubSeq(errors', 1, Len(errors)) = errors
     /\ \A k \in Appended :
          IsUnusedWarning(errors'[k]) =>
            /\ CloseStep
            /\ \E d \in BindingsOf(errors'[k]) :
                 Parent(prog, d) = ClosingScope
    ]_vars

\* C16 (as claimed): a reference to a name that is not ambient and whose only
\* bindings are let/const declarators of nested scopes that do not contain the
\* reference is reported, in the returned list, as "'<name>' is not defined".
C16_NestedLetInvisibleOutside ==
  Done =>
    \A r \in 1..Len(prog) :
      (/\ IsReference(prog, r)
       /\ ~IsGlobal(prog[r].name)
       /\ \E b \in 1..Len(prog) : IsBinding(prog, b) /\ prog[b].name = prog[r].name
       /\ \A b \in 1..Len(prog) :
            (IsBinding(prog, b) /\ prog[b].name = prog[r].name)
              => /\ IsDeclarator(prog, b)
                 /\ prog[b].kind \in {"let", "const"}
                 /\ Parent(prog, b) # 0
                 /\ r \notin Subtree(prog, Parent(prog, b)))
      => \E k \in 1..Len(errors) :
           /\ IsNotDefinedError(errors[k])
           /\ errors[k].message.name = prog[r].name
           /\ At(errors[k], prog[r])

\* The scope of the stack a use of `name` is charged to.
Resolving(name) ==
  CHOOSE i \in 1..Len(scopeStack) :
    /\ Has(scopeStack[i].declared, name)
    /\ \A j \in (i + 1)..Len(scopeStack) : ~Has(scopeStack[j].declared, name)

\* The traversal is at a node one of the visitor's handlers takes.
HandlerApplies ==
  \E type \in {"BlockStatement", "FunctionDeclaration", "ArrowFunctionExpression"},
     ev \in {"enter", "exit"} :
    AtNode(type, ev) \/ AtNode("Identifier", "visit")

\* C17: the analysis terminates and no diagnostic stops it.  Until lintCode
\* returns the traversal stands before a step it can take, every step moves the traversal forward over
\* an unchanged program and never past its end, and the list never shrinks;
\* whatever the list already holds, a use is still resolved (charged to the
\* scope declaring the name, or reported when nothing declares it and it is not
\* ambient); every scope has been closed when lintCode returns, and every
\* reference to a name bound nowhere is then in the list.
C17_TraversalCompletes ==
  /\ [](Done \/ Called \/ pc = 0 \/ pc = Len(prog) + 1 \/ HandlerApplies)
  /\ [][/\ pc' > pc
        /\ pc' <= Len(prog) + 2
        /\ prog' = prog
        /\ Len(errors') >= Len(errors)
        /\ SubSeq(errors', 1, Len(errors)) = errors
       ]_vars
  /\ [][UseStep =>
          LET name == prog[pc].name
          IN IF Visible(name)
             THEN name \in scopeStack'[Resolving(name)].used
             ELSE IsGlobal(name) \/ Len(errors') = Len(errors) + 1
       ]_vars
  /\ [](Done => scopeStack = <<>>)
  /\ []((Done /\ ParserAccepts(prog)) =>
          \A r \in 1..Len(prog) :
            (/\ IsReference(prog, r)
             /\ ~IsGlobal(prog[r].name)
             /\ \A b \in 1..Len(prog) :
                  ~(IsBinding(prog, b) /\ prog[b].name = prog[r].name))
            => \E k \in 1..Len(errors) :
                 IsNotDefinedError(errors[k]) /\ At(errors[k], prog[r]))

\* C17 witness: lintCode has returned a list whose first diagnostic is the error
\* of a use and whose last one is an unused warning pushed by a scope that
\* closed later: the traversal went on after the error.
C17_Witness ==
  /\ Done
  /\ Len(errors) >= 2
  /\ errors[1].severity = "error"
  /\ ~IsSyntaxDiagnostic(errors[1])
  /\ IsUnusedWarning(errors[Len(errors)])
  /\ scopeStack = <<>>

\* C18 (as claimed): every diagnostic of the list has line >= 1 and
\* column >= 1.
C18_PositionsOneBased ==
  \A k \in 1..Len(errors) : errors[k].line >= 1 /\ errors[k].column >= 1

\* The nodes whose scopes are on the stack, outermost first: the Program, then
\* the entered and not yet left nodes around the node the traversal is at.
OpenScopes ==
  {0} \cup {j \in 1..Min2(pc - 1, Len(prog)) :
              prog[j].ev = "enter" /\ Close(prog, j) >= pc}

\* C19 (as claimed): at every point of the traversal no declaration span is in
\* the declared maps of two scopes of the stack, and every declarator a scope
\* holds is one of the scope's own statements.
C19_DeclarationInOneScope ==
  /\ \A i, j \in 1..Len(scopeStack) :
       i # j =>
         \A k \in 1..Len(scopeStack[i].declared),
            m \in 1..Len(scopeStack[j].declared) :
           scopeStack[i].declared[k].startIndex
             # scopeStack[j].declared[m].startIndex
  /\ \A i \in 1..Len(scopeStack) :
       \A k \in 1..Len(scopeStack[i].declared) :
         \A d \in 1..Len(prog) :
           (/\ IsDeclarator(prog, d)
            /\ prog[d].start = scopeStack[i].declared[k].startIndex)
           => Parent(prog, d) \in OpenScopes

\* A step that enters a scope-introducing node.
EnterStep ==
  /\ pc' = pc + 1
  /\ \/ pc = 0
     \/ pc \in 1..Len(prog) /\ prog[pc].ev = "enter"

\* C20: the scope stack is a balanced LIFO stack.  Entering the program, a
\* block, a function declaration or an arrow function pushes exactly one scope
\* and leaving it pops exactly the top one, so the stack always holds one scope
\* per node entered and not yet left; the stack is not empty when a handler
\* that calls declare or use runs, nor when exitScope runs; it is empty before
\* the traversal and when lintCode returns.
C20_BalancedScopeStack ==
  /\ [][/\ EnterStep => Len(scopeStack') = Len(scopeStack) + 1
        /\ CloseStep =>
             /\ scopeStack # <<>>
             /\ scopeStack' = SubSeq(scopeStack, 1, Len(scopeStack) - 1)
        /\ (~EnterStep /\ ~CloseStep) => Len(scopeStack') = Len(scopeStack)
       ]_vars
  /\ [](pc \in 1..(Len(prog) + 1) =>
          /\ scopeStack # <<>>
          /\ Len(scopeStack) = Cardinality(OpenScopes))
  /\ []((Called \/ pc = 0 \/ Done) => scopeStack = <<>>)

\* C20 witness: the traversal stands at a use inside a function body, with the
\* scopes of the program, the function and its body on the stack.
C20_Witness ==
  /\ AtNode("Identifier", "visit")
  /\ ~IsSkipped(prog[pc])
  /\ IsFunctionBody(prog, Parent(prog, pc))
  /\ Len(scopeStack) = Cardinality(OpenScopes)
  /\ Len(scopeStack) >= 3

\* prog[d] is the only binding of its name in the program.
OnlyBinding(d) ==
  \A b \in 1..Len(prog) :
    (IsBinding(prog, b) /\ prog[b].name = prog[d].name) => b = d

\* The scope of prog[d] contains prog[r], directly or in a nested scope.
InScopeOf(r, d) == r \in Subtree(prog, Parent(prog, d))

\* C21 (as claimed): a reference that precedes, in the source, the only
\* declarator of its name, in the declarator's scope or in a scope nested inside
\* it, is not reported as 'not defined' in the returned list, and the
\* declaration counts as used: the list holds no unused warning for it.
C21_EarlierUseResolvesAndMarks ==
  Done =>
    \A d, r \in 1..Len(prog) :
      (/\ IsDeclarator(prog, d)
       /\ OnlyBinding(d)
       /\ IsReference(prog, r)
       /\ prog[r].name = prog[d].name
       /\ r < d
       /\ InScopeOf(r, d))
      => /\ \A k \in 1..Len(errors) :
              ~(IsNotDefinedError(errors[k]) /\ At(errors[k], prog[r]))
         /\ UnusedWarningsOf(d) = {}

\* A node the visitor registers with declare: a declarator, a function
\* declaration, a parameter that is a plain identifier.
IsDeclared(p, i) == IsDeclarator(p, i) \/ IsFunctionDecl(p, i) \/ IsParam(p, i)

\* The scope of prog[inner] lies strictly inside the scope of prog[outer].
ShadowedBy(outer, inner) ==
  /\ IsDeclared(prog, outer) /\ IsDeclared(prog, inner)
  /\ prog[outer].name = prog[inner].name
  /\ Parent(prog, inner) # Parent(prog, outer)
  /\ Parent(prog, inner) \in Subtree(prog, Parent(prog, outer))
  /\ \A b \in 1..Len(prog) :
       (IsBinding(prog, b) /\ prog[b].name = prog[outer].name)
         => b \in {outer, inner}

\* C22 (as claimed): a name has two declarations, one in a scope nested inside
\* the scope of the other, and every reference to it lies in the inner scope.
\* Then in the returned list each reference has a TDZ error exactly when the
\* inner declaration is a let, const or parameter on a later line, and the outer
\* declaration has its unused warning.
C22_InnermostOnly ==
  Done =>
    \A outer, inner \in 1..Len(prog) :
      (/\ ShadowedBy(outer, inner)
       /\ \E r \in 1..Len(prog) :
            IsReference(prog, r) /\ prog[r].name = prog[inner].name
       /\ \A r \in 1..Len(prog) :
            (IsReference(prog, r) /\ prog[r].name = prog[inner].name)
              => InScopeOf(r, inner))
      => /\ UnusedWarningsOf(outer) # {}
         /\ \A r \in 1..Len(prog) :
              (IsReference(prog, r) /\ prog[r].name = prog[inner].name)
                => ((TdzErrorsOf(r) # {})
                      <=> (/\ ~IsFunctionDecl(prog, inner)
                           /\ prog[inner].kind # "var"
                           /\ prog[r].line < prog[inner].line))

\* An identifier occurrence that names something without referring to a
\* binding: the target of a declarator, the name of a function declaration, a
\* parameter where its function declares it (with a default value or without),
\* the property of a non-computed member expression.
IsNamingSite(node) ==
  node.role \in {"declId", "funcId", "funcParam", "arrowParam", "patternLeft",
                 "memberProp"}

\* C23 (as claimed): the Identifier visitor leaves the list and the scopes alone
\* at a naming site, and at every other identifier it resolves the name: the use
\* is charged to the scope declaring it, or reported when nothing declares it
\* and it is not ambient.
C23_UsesExactlyTheReferences ==
  [][(AtNode("Identifier", "visit") /\ pc' = pc + 1) =>
       LET node == prog[pc]
       IN IF IsNamingSite(node)
          THEN errors' = errors /\ scopeStack' = scopeStack
          ELSE IF Visible(node.name)
          THEN node.name \in scopeStack'[Resolving(node.name)].used
          ELSE IsGlobal(node.name) \/ Len(errors') = Len(errors) + 1
  ]_vars

\* prog[r] refers to the name of the function declaration prog[f] ahead of it,
\* the name is not ambient, and every other binding of the name lies inside the
\* function, out of the reference's sight.
RefersAhead(r, f) ==
  /\ IsFunctionDecl(prog, f)
  /\ IsReference(prog, r)
  /\ prog[r].name = prog[f].name
  /\ r < f
  /\ ~IsGlobal(prog[r].name)
  /\ \A b \in 1..Len(prog) :
       (IsBinding(prog, b) /\ prog[b].name = prog[f].name /\ b # f)
         => b \in Subtree(prog, f)

\* C24 (as claimed): the name of a function declaration is in no scope before
\* the traversal enters the function; in the returned list a reference ahead of
\* the declaration, with nothing else to resolve to, is reported as not
\* defined, and a function referenced only ahead of its declaration has an
\* unused warning.
C24_FunctionNameFromItsNode ==
  /\ \A f \in 1..Len(prog) :
       (IsFunctionDecl(prog, f) /\ pc \in 1..f)
         => \A i \in 1..Len(scopeStack) :
              Has(scopeStack[i].declared, prog[f].name)
                => Get(scopeStack[i].declared, prog[f].name).startIndex
                     # prog[f].start
  /\ Done =>
       \A f, r \in 1..Len(prog) :
         RefersAhead(r, f)
         => /\ \E k \in 1..Len(errors) :
                 IsNotDefinedError(errors[k]) /\ At(errors[k], prog[r])
            /\ (\A q \in 1..Len(prog) :
                   (IsReference(prog, q) /\ prog[q].name = prog[f].name) => q < f)
                 => UnusedWarningsOf(f) # {}

RECURSIVE OutwardFrom(_)

\* The declared names from scope i of the stack outwards, each scope's in the
\* order they were registered.
OutwardFrom(i) ==
  IF i < 1 THEN <<>>
  ELSE [k \in 1..Len(scopeStack[i].declared) |-> scopeStack[i].declared[k].name]
       \o OutwardFrom(i - 1)

\* The candidate order: innermost scope first, ambient names last.
CandidateOrder == OutwardFrom(Len(scopeStack)) \o GLOBALS

\* The close candidates at the smallest distance from `name`.
Nearest(name) ==
  {c \in CloseCandidates(name) :
     \A o \in CloseCandidates(name) :
       EditDistance(name, c) <= EditDistance(name, o)}

\* s is the first candidate of the set in candidate order.
FirstOf(set, s) ==
  \E k \in 1..Len(CandidateOrder) :
    /\ CandidateOrder[k] = s
    /\ s \in set
    /\ \A j \in 1..(k - 1) : CandidateOrder[j] \notin set

\* C25 (as claimed): an undefined name with close candidates is reported with
\* the first, in candidate order, of the candidates at the smallest distance.
C25_FirstOfNearest ==
  [][(UndefinedStep /\ Nearest(prog[pc].name) # {}) =>
       FirstOf(Nearest(prog[pc].name), LastSuggestion(errors'))
  ]_vars

\* C25 (amended): an undefined name with close candidates, none of which
\* differs from it by letter case only, is reported with the first, in candidate
\* order, of the candidates at the smallest distance.
C25_FirstOfNearestUnlessCaseTwin ==
  [][(/\ UndefinedStep
      /\ Nearest(prog[pc].name) # {}
      /\ CaseTwins(prog[pc].name) = {}) =>
       FirstOf(Nearest(prog[pc].name), LastSuggestion(errors'))
  ]_vars

\* C25 witness: `ab` was reported with `cb`, a parameter of the arrow function
\* it stands in, although the program scope declares `ac`, equally near and
\* registered earlier.
C25_Witness ==
  /\ Done
  /\ ErrorFor(nab, ncb)
  /\ EditDistance(nab, ncb) = EditDistance(nab, nac)
  /\ \E d, q \in 1..Len(prog) :
       /\ d < q
       /\ IsDeclarator(prog, d) /\ prog[d].name = nac
       /\ IsParam(prog, q) /\ prog[q].name = ncb

\* The text has no character other than white space.
Blank(text) == \A i \in 1..Len(text) : IsWhiteSpace(text[i])

\* The list the page is to show for a code: lintCode's, or none for a blank
\* code.
Expected(text) == IF Blank(text) THEN <<>> ELSE Linted[text]

\* C26: at most one timeout is set at any time; after a change of code the only
\* timeout set is the one for the new code; a timeout that runs lints the
\* current code; and whenever the displayed list changes, it becomes the list
\* for the current code.
C26_OnePendingLint ==
  /\ [](Cardinality(timers) <= 1)
  /\ [][code' # code => timers' = {code'}]_vars
  /\ [][timeout => (/\ hist'.by = "timeout"
                    /\ hist'.source = code
                    /\ code' = code)]_vars
  /\ [][displayed' # displayed => displayed' = Expected(code')]_vars

\* C26 witness: the last change of code cleared a timeout that had not run; the
\* timeout set for the new code has run since and the page shows that code's
\* diagnostics.
C26_Witness ==
  /\ hist.cleared
  /\ hist.by = "timeout"
  /\ hist.source = code
  /\ timers = {}
  /\ displayed = Expected(code)
  /\ displayed # <<>>

\* C27: either the code keeps changing, or from some point on the page shows
\* the list for the current code; once it shows that list it keeps showing it
\* while the code does not change, whatever button is pressed; lintCode is never
\* called on a blank source; Clear leaves the code empty and the list empty.
C27_SettlesOnCurrentCode ==
  /\ ([]<><<code' # code>>_vars) \/ <>[](displayed = Expected(code))
  /\ [][(displayed = Expected(code) /\ code' = code)
          => displayed' = Expected(code)]_vars
  /\ [](hist.invoked => ~Blank(hist.source))
  /\ [][handleClear => (code' = <<>> /\ displayed' = <<>>)]_vars

\* C27 witness: the timeout for the current code has run, the Lint button was
\* pressed after it, and the page shows the diagnostics of the current code.
C27_Witness ==
  /\ timers = {}
  /\ hist.by = "button"
  /\ hist.source = code
  /\ hist.invoked
  /\ displayed = Expected(code)
  /\ displayed # <<>>

RECURSIVE MinEdits(_, _)

\* The least number of insertions, deletions and substitutions of one character
\* that turn a into b.
MinEdits(a, b) ==
  IF a = <<>> THEN Len(b)
  ELSE IF b = <<>> THEN Len(a)
  ELSE IF Head(a) = Head(b) THEN MinEdits(Tail(a), Tail(b))
  ELSE 1 + Min2(Min2(MinEdits(Tail(a), b), MinEdits(a, Tail(b))),
                MinEdits(Tail(a), Tail(b)))

\* C28: what levenshtein returns for two strings is the least number of edits
\* between them, whichever string comes first; it is 0 exactly for equal
\* strings, and the length of the other string when one is empty.
C28_LevenshteinIsEditDistance ==
  /\ lev.ab # NotCalled =>
       /\ lev.ab = MinEdits(lev.a, lev.b)
       /\ (lev.ab = 0) <=> (lev.a = lev.b)
       /\ lev.a = <<>> => lev.ab = Len(lev.b)
       /\ lev.b = <<>> => lev.ab = Len(lev.a)
  /\ lev.ba # NotCalled => lev.ba = MinEdits(lev.b, lev.a)
  /\ (lev.ab # NotCalled /\ lev.ba # NotCalled) => lev.ab = lev.ba

\* C28 witness: levenshtein has returned 2 for `ab` and `baa`, two strings of
\* different lengths, in both orders.
C28_Witness ==
  /\ lev.a = <<"a", "b">>
  /\ lev.b = <<"b", "a", "a">>
  /\ lev.ab = 2
  /\ lev.ba = 2

====
